---- MODULE Spec2Model ----
(***************************************************************************)
(* AliGn: batch alignment of side-channel traces.                          *)
(*                                                                         *)
(* The module models the BatchProcessingThread of align/batch_processing.py*)
(* (scan pass, cut geometry, cut pass, finalisation, cooperative stop) and *)
(* the two trace stores of align/align_trace_data.py it reads and writes   *)
(* (NumpyArrays and D15TraceData over tracelib/traces.py).                 *)
(*                                                                         *)
(* Indices: the code counts traces and samples from 0, sequences here are  *)
(* 1-based; tracenr keeps the code's 0-based value and row tracenr is      *)
(* element tracenr + 1.                                                    *)
(***************************************************************************)
EXTENDS Integers, Sequences, FiniteSets, TLC

VARIABLES
    trace_data,          \* the source dataset (BatchProcessingThread.trace_data)
    tracetype,           \* channel the filters and triggers run on
    trace_count,         \* number of leading traces to process
    filter_dict,         \* ordered filter chain
    trigger_dict,        \* ordered trigger chain
    region_around_peak,  \* <<start, end>> of the cut region, relative to the mark
    peak_array,          \* per trace the anchor pair <<anchor1, anchor2>>
    valid_traces_array,  \* per trace the validity flag
    is_running,          \* BatchProcessingThread._is_running
    pc,                  \* position of the worker in run()
    tracenr,             \* loop index of the running per-trace loop
    new_trace_length,    \* output trace length computed after the scan pass
    number_of_valid_traces,
    new_trace_count,     \* sum of the results of cut_and_modify_traces
    warned,              \* "Trace count missmatch!" was logged
    new_trace_data,      \* the output dataset being recorded
    loc,                 \* locals of the per-trace call executed last; op is
                         \* "scan", "cut", "skip", or "raised" when an
                         \* exception left the call
    supplied,            \* per channel the rows handed to add_trace so far
    progress             \* number of progress_signal emissions

vars == <<trace_data, tracetype, trace_count, filter_dict, trigger_dict,
          region_around_peak, peak_array, valid_traces_array, is_running, pc,
          tracenr, new_trace_length, number_of_valid_traces, new_trace_count,
          warned, new_trace_data, loc, supplied, progress>>

(***************************************************************************)
(* Bounds of the model.                                                    *)
(***************************************************************************)
\* number of traces (rows) of the source dataset
MaxTraces == 2
\* samples per trace of the em channel; power traces hold one sample more
TraceLen == 3
\* add_trace calls made by the recording harness
MaxCalls == 4

(***************************************************************************)
(* Values.                                                                 *)
(***************************************************************************)
Chans == {"em", "power", "plain", "cipher"}
AmpChans == {"em", "power"}
AuxChans == {"plain", "cipher"}
Backends == {"npy", "d15"}

Max(a, b) == IF a >= b THEN a ELSE b
Min(a, b) == IF a <= b THEN a ELSE b

RECURSIVE SetMax(_)
SetMax(S) ==
    LET x == CHOOSE y \in S : TRUE
    IN  IF S = {x} THEN x ELSE Max(x, SetMax(S \ {x}))

\* Sequences over S of length at most n.
SeqUpTo(S, n) == UNION {[1..k -> S] : k \in 0..n}

EmptyMap == [c \in {} |-> <<>>]

(***************************************************************************)
(* Trace stores (align/align_trace_data.py, align/tracelib/traces.py).     *)
(*                                                                         *)
(* A dataset is a record                                                   *)
(*   file_type          "npy" (NumpyArrays) or "d15" (D15TraceData)        *)
(*   number_of_traces   NumpyArrays.number_of_traces / TraceData.nrTraces  *)
(*   records_written    NumpyArrays._records_written, ONE counter of the   *)
(*                      dataset (unused by the d15 store, whose counter is *)
(*                      DataObject._recordsWritten, one per channel, here  *)
(*                      the length of the channel's rows)                  *)
(*   mm                 channel name -> channel; its domain is the set of  *)
(*                      channels present (_npy_mm keys / hasEM, hasPower,  *)
(*                      hasPlain, hasCipher)                               *)
(*   finished           finish() was called                                *)
(*   raised             an exception left a store method                   *)
(* A channel is a record                                                   *)
(*   length    samples per row given to register_data_file                 *)
(*   rows      the rows of the array / the records of the data file        *)
(*   written   indices of rows that were assigned; a row of a freshly      *)
(*             allocated numpy array that is not in written holds          *)
(*             uninitialised memory and is shown as the empty row          *)
(***************************************************************************)
ChanId(c) ==
    CASE c = "em" -> 1 [] c = "power" -> 2 [] c = "plain" -> 3 [] OTHER -> 4

\* Samples per source trace of channel c.
SrcLen(c) ==
    CASE c = "em" -> TraceLen [] c = "power" -> TraceLen + 1 [] OTHER -> 1

\* Sample i of source trace t of channel c (t, i from 1): every sample of the
\* source is a distinct non-zero number, so a row tells where it comes from.
Sample(c, t, i) == ChanId(c) * 100 + t * 10 + i

SrcRow(c, t) == [i \in 1..SrcLen(c) |-> Sample(c, t, i)]

SrcChannel(c, n) ==
    [length |-> SrcLen(c), rows |-> [t \in 1..n |-> SrcRow(c, t)], written |-> 1..n]

\* An opened dataset with the channels cs and n traces.
OpenTraceData(ft, cs, n) ==
    [file_type |-> ft, number_of_traces |-> n, records_written |-> 0,
     mm |-> [c \in cs |-> SrcChannel(c, n)], finished |-> TRUE, raised |-> FALSE]

has(td, c) == c \in DOMAIN td.mm
has_em(td) == has(td, "em")
has_power(td) == has(td, "power")
has_plain(td) == has(td, "plain")
has_cipher(td) == has(td, "cipher")

get_number_of_traces(td) == td.number_of_traces

set_number_of_traces(td, n) == [td EXCEPT !.number_of_traces = n]

get_traces(td, c) == td.mm[c].rows

\* get_trace(trace_type, trace_nr), trace_nr counted from 0
get_trace(td, c, nr) == td.mm[c].rows[nr + 1]

\* prepare_new_tracedata: a new, empty dataset of the same kind; the trace
\* count is copied (NumpyArrays) or read from the copied meta data (newFrom).
PrepareWithSourceChannels(td) ==
    [file_type |-> td.file_type, number_of_traces |-> get_number_of_traces(td),
     records_written |-> 0, mm |-> td.mm, finished |-> FALSE, raised |-> FALSE]

prepare_new_tracedata(td) ==
    [file_type |-> td.file_type, number_of_traces |-> get_number_of_traces(td),
     records_written |-> 0, mm |-> EmptyMap, finished |-> FALSE, raised |-> FALSE]

\* NumpyArrays.register_data_file: np.ndarray(shape=(number_of_traces, length)),
\* uninitialised. D15TraceData: register...File -> prepareForRecord with the
\* default save method DIRECTWRITE, an empty file.
register_data_file(td, c, length) ==
    LET ch == IF td.file_type = "npy"
              THEN [length |-> length,
                    rows |-> [i \in 1..td.number_of_traces |-> <<>>],
                    written |-> {}]
              ELSE [length |-> length, rows |-> <<>>, written |-> {}]
    IN  [td EXCEPT !.mm = (c :> ch) @@ td.mm]

\* NumpyArrays.add_trace
NumpyAddTraceOffByOne(td, c, data) ==
    IF td.records_written > td.number_of_traces
    THEN td
    ELSE IF td.records_written + 1 > Len(td.mm[c].rows)
         THEN [td EXCEPT !.raised = TRUE]
         ELSE [td EXCEPT !.mm[c].rows[td.records_written + 1] = data,
                         !.mm[c].written = @ \cup {td.records_written + 1},
                         !.records_written = @ + 1]

NumpyAddTrace(td, c, data) ==
    IF td.records_written >= td.number_of_traces
    THEN td   \* warning logged, trace ignored
    ELSE IF td.records_written + 1 > Len(td.mm[c].rows)
         THEN [td EXCEPT !.raised = TRUE]   \* IndexError
         ELSE [td EXCEPT !.mm[c].rows[td.records_written + 1] = data,
                         !.mm[c].written = @ \cup {td.records_written + 1},
                         !.records_written = @ + 1]

\* DataObject._addTraceRaw with save method DIRECTWRITE
addTraceRaw(td, c, data) ==
    IF Len(data) # td.mm[c].length
    THEN td   \* "Length mismatch" printed, trace ignored
    ELSE [td EXCEPT !.mm[c].rows = Append(@, data),
                    !.mm[c].written = @ \cup {Len(td.mm[c].rows) + 1}]

add_trace(td, c, data) ==
    IF td.file_type = "npy" THEN NumpyAddTrace(td, c, data)
    ELSE addTraceRaw(td, c, data)

\* Rows of input selected by mask, in increasing index order; rows past the
\* end of the mask are not selected (np.pad with False).
RECURSIVE SelectRows(_, _, _)
SelectRows(input, mask, i) ==
    IF i > Len(input) THEN <<>>
    ELSE IF i <= Len(mask) /\ mask[i]
         THEN <<input[i]>> \o SelectRows(input, mask, i + 1)
         ELSE SelectRows(input, mask, i + 1)

\* D15TraceData.reduce_data_from_mask: _addTraceRaw for every true mask entry
RECURSIVE D15Reduce(_, _, _, _, _)
D15Reduce(td, c, input, mask, i) ==
    IF i > Len(mask) THEN td
    ELSE IF mask[i]
         THEN D15Reduce(addTraceRaw(td, c, input[i]), c, input, mask, i + 1)
         ELSE D15Reduce(td, c, input, mask, i + 1)

ReduceIgnoringMask(td, c, input, mask) ==
    IF td.file_type = "npy"
    THEN [td EXCEPT !.mm[c].rows = input, !.mm[c].written = 1..Len(input)]
    ELSE D15Reduce(td, c, input, [i \in 1..Len(mask) |-> TRUE], 1)

reduce_data_from_mask(td, c, input, mask) ==
    IF td.file_type = "npy"
    THEN LET sel == SelectRows(input, mask, 1)
         IN  [td EXCEPT !.mm[c].rows = sel, !.mm[c].written = 1..Len(sel)]
    ELSE D15Reduce(td, c, input, mask, 1)

FinishUnsealed(td) == td

finish(td) == [td EXCEPT !.finished = TRUE]

(***************************************************************************)
(* Filter and trigger chains (align/batch_processing.py).                  *)
(*                                                                         *)
(* A filter of the chain is a record                                       *)
(*   name         the key of filter_dict (keys are distinct)               *)
(*   modify_data  "absent" when the filter has no modify_data parameter,   *)
(*                else "True" or "False"                                    *)
(*   window_len   moving_average_filter: the convolution window            *)
(*   missing_parameter  the caller left out a declared parameter, so that  *)
(*                process_data raises KeyError                             *)
(* The scan pass reads of the filtered buffer only its size, so the buffer *)
(* is modelled by its number of samples.                                   *)
(*                                                                         *)
(* A trigger of the chain is a record                                      *)
(*   kind         the key of trigger_dict, the trigger's name              *)
(*   missing_parameter  as for filters                                     *)
(* The marks a trigger returns on a trace are an input of the scan step.   *)
(* A mark is <<m>>; a null entry (None) is <<>>.                           *)
(***************************************************************************)
MaxChain == 2

Some(m) == <<m>>
NoMark == <<>>

FilterStages ==
    [name : {"moving_average_filter"}, modify_data : {"absent"},
     window_len : {2}, missing_parameter : BOOLEAN]
    \cup [name : {"bandpass_filter", "highpass_filter"},
          modify_data : {"True", "False"}, window_len : {0},
          missing_parameter : BOOLEAN]

DistinctNames(chain) ==
    \A i, j \in 1..Len(chain) : i # j => chain[i].name # chain[j].name

FilterChains == {ch \in SeqUpTo(FilterStages, MaxChain) : DistinctNames(ch)}

\* The modifying filter of a pure-modify run.
ModifyingBandpass ==
    [name |-> "bandpass_filter", modify_data |-> "True", window_len |-> 0,
     missing_parameter |-> FALSE]

\* The triggers of align/trigger, and example_trigger for any other subclass
\* of Trigger found by the TriggerLoader.
TriggerKinds ==
    {"rising_edge_trigger", "falling_edge_trigger", "first_peak_trigger",
     "last_peak_filter", "threshold_trigger", "hold_off", "example_trigger"}

\* Every trigger reads its parameters first and raises KeyError when one is
\* missing, whatever its input: one trigger stands for all in that case.
TriggerStages ==
    [kind : TriggerKinds, missing_parameter : {FALSE}]
    \cup {[kind |-> "hold_off", missing_parameter |-> TRUE]}

TriggerChains == SeqUpTo(TriggerStages, MaxChain)

ExampleTrigger == [kind |-> "example_trigger", missing_parameter |-> FALSE]

Marks == 0..(TraceLen - 1)

MarkLists ==
    {<<>>}
    \cup {<<Some(m)>> : m \in Marks}
    \cup {<<Some(p[1]), Some(p[2])>> : p \in {q \in Marks \X Marks : q[1] < q[2]}}
    \cup {<<NoMark, NoMark>>, <<Some(0), Some(0), Some(0)>>}

\* What the trigger chain hands back: None (no list at all) or a list.
NoXmarks == [is_none |-> TRUE, list |-> <<>>]
Xmarks(l) == [is_none |-> FALSE, list |-> l]

\* Size of a filter's output on n input samples. moving_average_filter:
\* convolve(data, ones(w)/w, "valid") has n - w + 1 samples; the IIR filters
\* (filtfilt) keep the size.
FilterSize(f, n) ==
    IF f.name = "moving_average_filter" /\ f.window_len > 0
    THEN n - f.window_len + 1
    ELSE n

\* _run_filters from stage i on. process_data of a filter that misses a
\* parameter raises KeyError, which _run_filters does not catch (its try
\* covers only the lookup of the result's 'data' key). applied lists the
\* filters that processed the buffer, with their parameters, in order.
RECURSIVE run_filters(_, _, _, _, _)
run_filters(chain, i, modify_data, size, applied) ==
    IF i > Len(chain)
    THEN [modify_data |-> modify_data, size |-> size, applied |-> applied,
          raised |-> FALSE]
    ELSE LET f == chain[i]
             failed == [modify_data |-> modify_data, size |-> size,
                        applied |-> applied, raised |-> TRUE]
         IN  IF f.modify_data = "True"
             THEN run_filters(chain, i + 1, "True", size, applied)   \* skip filter
             ELSE IF f.missing_parameter THEN failed
             ELSE run_filters(chain, i + 1,
                              IF f.modify_data = "False" THEN "False"
                              ELSE modify_data,
                              FilterSize(f, size), Append(applied, f))

\* A trigger marks positions of the buffer it was given.
MarksWithin(l, size) ==
    \A i \in 1..Len(l) : l[i] # NoMark => l[i][1] < size

\* What process_data of a trigger can do on a buffer of the given size when
\* called with the given offset (<<o>>, or NoMark for None), over all buffer
\* contents and parameter values: return a list, or raise.
Returned(l) == [raised |-> FALSE, list |-> l]
Raised == [raised |-> TRUE, list |-> <<>>]

TriggerReturns(kind, offset, size) ==
    IF offset = NoMark
    THEN CASE kind \in {"rising_edge_trigger", "falling_edge_trigger",
                        "first_peak_trigger"} ->
                 \* a mark is found: mark + None raises TypeError
                 {Returned(<<>>)} \cup (IF size > 1 THEN {Raised} ELSE {})
           [] kind = "last_peak_filter" ->
                 {Returned(<<>>)} \cup {Returned(<<Some(x)>>) : x \in 0..(size - 2)}
           [] kind \in {"threshold_trigger", "hold_off"} ->
                 {Raised}   \* None < len(...), None + holdoff: TypeError
           [] OTHER ->
                 {Raised} \cup {Returned(l) : l \in {m \in MarkLists : MarksWithin(m, size)}}
    ELSE LET o == offset[1]
         IN  CASE kind \in {"rising_edge_trigger", "falling_edge_trigger",
                            "first_peak_trigger"} ->
                     {Returned(<<>>)}
                     \cup {Returned(<<Some(x)>>) : x \in (o + 1)..(size - 1)}
               [] kind = "last_peak_filter" ->
                     \* the position within input_data[offset:]
                     {Returned(<<>>)}
                     \cup {Returned(<<Some(x)>>) : x \in 0..(size - o - 2)}
               [] kind = "threshold_trigger" ->
                     {Returned(<<NoMark, NoMark>>)}
                     \cup {Returned(<<Some(p[1]), Some(p[2])>>) :
                             p \in {q \in (o..(size - 1)) \X (o..(size - 1)) :
                                      q[1] < q[2]}}
               [] kind = "hold_off" ->
                     {Returned(<<>>)}
                     \cup {Returned(<<Some(x)>>) : x \in o..(size - 1)}
               [] OTHER ->
                     {Returned(l) : l \in {m \in MarkLists : MarksWithin(m, size)}}

\* Line 243: index 0 of xmarks seeds the offset of the next trigger.
NextOffsetFromLastMark(list) == list[Len(list)]

NextOffset(list) == list[1]

\* _run_triggers from stage i on, over a buffer of the given size: every way
\* the call can end. xmarks is the value it returns, calls lists the
\* process_data calls made, raised tells that an exception other than
\* KeyError left the call.
RECURSIVE run_triggers(_, _, _, _, _, _)
run_triggers(chain, i, xmarks, current_offset, calls, size) ==
    IF i > Len(chain)
    THEN {[xmarks |-> xmarks, calls |-> calls, raised |-> FALSE]}
    ELSE IF chain[i].missing_parameter
    THEN \* KeyError: break
         {[xmarks |-> xmarks, raised |-> FALSE,
           calls |-> Append(calls, [kind |-> chain[i].kind,
                                    offset |-> current_offset,
                                    result |-> "KeyError", list |-> <<>>])]}
    ELSE UNION {
           IF out.raised
           THEN {[xmarks |-> xmarks, raised |-> TRUE,
                  calls |-> Append(calls, [kind |-> chain[i].kind,
                                           offset |-> current_offset,
                                           result |-> "TypeError",
                                           list |-> <<>>])]}
           ELSE LET log == Append(calls, [kind |-> chain[i].kind,
                                          offset |-> current_offset,
                                          result |-> "xmarks",
                                          list |-> out.list])
                IN  IF out.list = <<>>
                    THEN {[xmarks |-> Xmarks(out.list), calls |-> log,
                           raised |-> FALSE]}          \* empty: break
                    ELSE run_triggers(chain, i + 1, Xmarks(out.list),
                                      NextOffset(out.list), log, size)
           : out \in TriggerReturns(chain[i].kind, current_offset, size)}

\* run_filters_and_triggers, lines 186-219: the classification of one trace.
\* Gives <<valid, anchor pair, region_around_peak>>.
ClassifyAtLeastTwo(xmarks, modify_data, size, region, peak) ==
    LET l == xmarks.list
    IN  IF ~xmarks.is_none
        THEN IF Len(l) = 1 /\ l[1] # NoMark
             THEN IF (l[1][1] + region[2] > size) \/ (l[1][1] + region[1] < 0)
                  THEN <<FALSE, peak, region>>
                  ELSE <<TRUE, <<l[1][1], l[1][1]>>, region>>
             ELSE IF Len(l) >= 2 /\ l[1] # NoMark /\ l[2] # NoMark
             THEN IF (l[2][1] + region[2] > size) \/ (l[1][1] + region[1] < 0)
                  THEN <<FALSE, peak, region>>
                  ELSE <<TRUE, <<l[1][1], l[2][1]>>, region>>
             ELSE <<FALSE, peak, region>>
        ELSE IF modify_data = "True"
             THEN <<TRUE, <<0, 0>>, <<0, size>>>>
             ELSE <<FALSE, peak, region>>

Classify(xmarks, modify_data, size, region, peak) ==
    LET l == xmarks.list
    IN  IF ~xmarks.is_none
        THEN IF Len(l) = 1 /\ l[1] # NoMark
             THEN IF (l[1][1] + region[2] > size) \/ (l[1][1] + region[1] < 0)
                  THEN <<FALSE, peak, region>>
                  ELSE <<TRUE, <<l[1][1], l[1][1]>>, region>>
             ELSE IF Len(l) = 2 /\ l[1] # NoMark /\ l[2] # NoMark
             THEN IF (l[2][1] + region[2] > size) \/ (l[1][1] + region[1] < 0)
                  THEN <<FALSE, peak, region>>
                  ELSE <<TRUE, <<l[1][1], l[2][1]>>, region>>
             ELSE <<FALSE, peak, region>>   \* no peaks were found
        ELSE IF modify_data = "True"
             THEN <<TRUE, <<0, 0>>, <<0, size>>>>   \* whole trace
             ELSE <<FALSE, peak, region>>

(***************************************************************************)
(* Cutting (cut_and_modify_traces, _run_modifying_filter).                 *)
(***************************************************************************)
\* s[start:end] of Python: negative indices count from the end, both are
\* clipped to the sequence.
PyIndex(k, n) == IF k < 0 THEN Max(k + n, 0) ELSE Min(k, n)

PySlice(s, start, end) ==
    LET lo == PyIndex(start, Len(s))
        hi == PyIndex(end, Len(s))
    IN  IF lo < hi THEN SubSeq(s, lo + 1, hi) ELSE <<>>

\* np.ndarray.resize(a, n) on a copy: the first n samples, zero-filled
Resize(s, n) == [i \in 1..n |-> IF i <= Len(s) THEN s[i] ELSE 0]

\* lines 313-319: the slice of one source trace, made trace_length long
CutNoResize(trace, start, end, trace_length) == PySlice(trace, start, end)

Cut(trace, start, end, trace_length) ==
    LET cutted_trace == PySlice(trace, start, end)
    IN  IF Len(cutted_trace) < trace_length
        THEN Resize(cutted_trace, trace_length)
        ELSE cutted_trace

\* The numeric transform of a filter is outside the model: applying a filter
\* marks every sample (adds 1000), keeping the number of samples.
FilterData(f, data) == [i \in 1..Len(data) |-> data[i] + 1000]

\* Lines 356-358: a filter runs on the cut slice when its settings hold the
\* key modify_data and its value is true.
RunWhenFlagPresent(f) == f.modify_data \in {"True", "False"}

RunWhenCutting(f) == f.modify_data = "True"

\* _run_modifying_filter from stage i on: the filters whose modify_data is
\* true process the data; one that misses a parameter raises KeyError.
RECURSIVE run_modifying_filter(_, _, _, _)
run_modifying_filter(chain, i, data, applied) ==
    IF i > Len(chain)
    THEN [data |-> data, applied |-> applied, raised |-> FALSE]
    ELSE IF RunWhenCutting(chain[i])
         THEN IF chain[i].missing_parameter
              THEN [data |-> data, applied |-> applied, raised |-> TRUE]
              ELSE run_modifying_filter(chain, i + 1,
                                        FilterData(chain[i], data),
                                        Append(applied, chain[i]))
         ELSE run_modifying_filter(chain, i + 1, data, applied)

\* The amplitude channels cut, in the order of lines 306-310.
CutTypes(td) ==
    (IF has_power(td) THEN <<"power">> ELSE <<>>)
    \o (IF has_em(td) THEN <<"em">> ELSE <<>>)

\* The channels reduced in _finalize_new_traces, in the order of lines 371-375.
FinalizeTypes(td) ==
    (IF has_plain(td) THEN <<"plain">> ELSE <<>>)
    \o (IF has_cipher(td) THEN <<"cipher">> ELSE <<>>)

\* The loop of lines 312-324 from position i of types on: the output
\* dataset, the slices cut, the rows handed to add_trace, the filters applied
\* to each slice, and whether an exception ended the loop.
RECURSIVE CutLoop(_, _, _, _, _, _)
CutLoop(types, i, nr, start, trace_length, acc) ==
    IF i > Len(types) THEN acc
    ELSE LET c == types[i]
             cutted == Cut(get_trace(trace_data, c, nr), start,
                           start + trace_length, trace_length)
             filtered == run_modifying_filter(filter_dict, 1, cutted, <<>>)
         IN  IF filtered.raised
             THEN [acc EXCEPT !.raised = TRUE,
                              !.cut = (c :> cutted) @@ acc.cut]
             ELSE CutLoop(types, i + 1, nr, start, trace_length,
                     [td |-> add_trace(acc.td, c, filtered.data),
                      cut |-> (c :> cutted) @@ acc.cut,
                      sup |-> [acc.sup EXCEPT ![c] = Append(@, filtered.data)],
                      applied |-> (c :> filtered.applied) @@ acc.applied,
                      raised |-> FALSE])

\* Registration of the reduced channels and their reduction (lines 377-400).
RECURSIVE FinalizeLoop(_, _, _)
FinalizeLoop(types, i, td) ==
    IF i > Len(types) THEN td
    ELSE LET c == types[i]
             trace_length == Len(get_trace(trace_data, c, 0))
             regd == register_data_file(td, c, trace_length)
         IN  FinalizeLoop(types, i + 1,
                 reduce_data_from_mask(regd, c, get_traces(trace_data, c),
                                       valid_traces_array))

(***************************************************************************)
(* The worker: BatchProcessingThread.__init__, run, stop.                  *)
(***************************************************************************)
\* Cut regions the caller passes: offsets from the mark, the start before
\* the end.
Regions == {r \in {-1, 0, 1} \X (1..(TraceLen - 1)) : r[1] < r[2]}

NoLocals ==
    [op |-> "none", tracenr |-> 0, xmarks |-> NoXmarks, modify_data |-> "None",
     size |-> 0, region |-> <<0, 0>>, start |-> 0, cut |-> EmptyMap,
     applied |-> <<>>, cut_applied |-> EmptyMap, error |-> "none",
     during |-> "none"]

NoSupplied == [c \in Chans |-> <<>>]

\* The constructor arguments the thread never reassigns.
inputs == <<tracetype, trace_count, filter_dict, trigger_dict>>

\* The state after BatchProcessingThread(...) was constructed on a dataset
\* opened from td_type files with the channels cs, and started.
InitThread(ft, cs, tt, n, fd, tg, region) ==
    /\ trace_data = OpenTraceData(ft, cs, MaxTraces)
    /\ tracetype = tt
    /\ trace_count = n
    /\ filter_dict = fd
    /\ trigger_dict = tg
    /\ region_around_peak = region
    /\ peak_array = [t \in 1..n |-> <<0, 0>>]
    /\ valid_traces_array = [t \in 1..n |-> FALSE]
    /\ is_running = TRUE
    /\ pc = "Idle"
    /\ tracenr = 0
    /\ new_trace_length = 0
    /\ number_of_valid_traces = 0
    /\ new_trace_count = 0
    /\ warned = FALSE
    /\ new_trace_data = prepare_new_tracedata(trace_data)
    /\ loc = NoLocals
    /\ supplied = NoSupplied
    /\ progress = 0

\* The caller starts no batch when both chains are empty
\* (Model.start_batch_processing_thread, model.py lines 190-193).
Startable(fd, tg) == fd # <<>> \/ tg # <<>>

\* Every filter chain with every region, without a trigger, with a trigger
\* that may return any list and with one that misses a parameter, on an
\* array dataset with the em channel of which the first trace is processed.
InitChains ==
    \E fd \in FilterChains,
       tg \in {<<>>, <<ExampleTrigger>>,
               <<[kind |-> "hold_off", missing_parameter |-> TRUE]>>},
       region \in Regions :
        /\ Startable(fd, tg)
        /\ InitThread("npy", {"em"}, "em", 1, fd, tg, region)

\* Every trigger chain, with and without a modifying filter, on the same
\* dataset.
InitTriggers ==
    \E fd \in {<<>>, <<ModifyingBandpass>>}, tg \in TriggerChains,
       region \in {<<-1, 1>>, <<0, 1>>} :
        /\ tg # <<>>
        /\ InitThread("npy", {"em"}, "em", 1, fd, tg, region)

\* Every kind of dataset and every trace count, in a run with a modifying
\* filter and no trigger.
InitModify ==
    \E ft \in Backends, amp \in (SUBSET AmpChans) \ {{}},
       aux \in {{}, {"plain"}, AuxChans}, n \in 1..MaxTraces,
       region \in Regions :
        \E tt \in amp :
            InitThread(ft, amp \cup aux, tt, n, <<ModifyingBandpass>>, <<>>,
                       region)

\* Every backend and every set of amplitude channels, all traces processed,
\* in a run with one trigger, with and without a modifying filter.
InitDatasets ==
    \E ft \in Backends, amp \in (SUBSET AmpChans) \ {{}},
       fd \in {<<>>, <<ModifyingBandpass>>},
       region \in {<<-1, 1>>, <<0, 1>>} :
        \E tt \in amp :
            InitThread(ft, amp \cup AuxChans, tt, MaxTraces, fd,
                       <<ExampleTrigger>>, region)

Init == InitChains \/ InitTriggers \/ InitModify \/ InitDatasets

\* stop(): may arrive at any time while the thread is alive
Stop ==
    /\ pc \notin {"Done", "Aborted"}
    /\ is_running' = FALSE
    /\ UNCHANGED <<trace_data, inputs, region_around_peak, peak_array,
                   valid_traces_array, pc, tracenr, new_trace_length,
                   number_of_valid_traces, new_trace_count, warned,
                   new_trace_data, loc, supplied, progress>>

\* run(), lines 90-93: entry
RunStart ==
    /\ pc = "Idle"
    /\ pc' = "Scanning"
    /\ tracenr' = 0
    /\ is_running' = TRUE
    /\ UNCHANGED <<trace_data, inputs, region_around_peak, peak_array,
                   valid_traces_array, new_trace_length,
                   number_of_valid_traces, new_trace_count, warned,
                   new_trace_data, loc, supplied, progress>>

\* The ways run_filters_and_triggers can end on a buffer left by the filters:
\* the value of xmarks, or an exception out of the trigger chain.
ScanOutcomes(size) ==
    IF trigger_dict # <<>>
    THEN {[xmarks |-> r.xmarks, raised |-> r.raised] :
            r \in run_triggers(trigger_dict, 1, NoXmarks, Some(0), <<>>, size)}
    ELSE {[xmarks |-> NoXmarks, raised |-> FALSE]}

\* One iteration of the filter loop (lines 96-99) with the flag set:
\* run_filters_and_triggers(tracenr), then the progress signal. An exception
\* out of a filter or a trigger leaves run(): the thread ends.
ScanTrace ==
    /\ pc = "Scanning"
    /\ tracenr < trace_count
    /\ is_running
    /\ LET raw == get_trace(trace_data, tracetype, tracenr)
           f == IF filter_dict # <<>>
                THEN run_filters(filter_dict, 1, "None", Len(raw), <<>>)
                ELSE [modify_data |-> "None", size |-> Len(raw),
                      applied |-> <<>>, raised |-> FALSE]
           here == [NoLocals EXCEPT !.op = "scan", !.tracenr = tracenr,
                                    !.modify_data = f.modify_data,
                                    !.size = f.size, !.applied = f.applied,
                                    !.region = region_around_peak]
       IN  IF f.raised
           THEN /\ pc' = "Aborted"
                /\ loc' = [here EXCEPT !.op = "raised", !.during = "scan",
                                       !.error = "KeyError"]
                /\ UNCHANGED <<valid_traces_array, peak_array,
                               region_around_peak, tracenr, progress>>
           ELSE \E out \in ScanOutcomes(f.size) :
                  IF out.raised
                  THEN /\ pc' = "Aborted"
                       /\ loc' = [here EXCEPT !.op = "raised",
                                              !.during = "scan",
                                              !.error = "TypeError"]
                       /\ UNCHANGED <<valid_traces_array, peak_array,
                                      region_around_peak, tracenr, progress>>
                  ELSE LET r == Classify(out.xmarks, f.modify_data, f.size,
                                         region_around_peak,
                                         peak_array[tracenr + 1])
                       IN  /\ valid_traces_array' =
                                  [valid_traces_array EXCEPT ![tracenr + 1] = r[1]]
                           /\ peak_array' =
                                  [peak_array EXCEPT ![tracenr + 1] = r[2]]
                           /\ region_around_peak' = r[3]
                           /\ loc' = [here EXCEPT !.xmarks = out.xmarks]
                           /\ tracenr' = tracenr + 1
                           /\ progress' = progress + 1
                           /\ pc' = pc
    /\ UNCHANGED <<trace_data, inputs, is_running, new_trace_length,
                   number_of_valid_traces, new_trace_count, warned,
                   new_trace_data, supplied>>

\* One iteration of either loop with the flag cleared: nothing is done
SkipTraceWithProgress ==
    /\ pc \in {"Scanning", "Cutting"}
    /\ tracenr < trace_count
    /\ ~is_running
    /\ tracenr' = tracenr + 1
    /\ progress' = progress + 1
    /\ loc' = [NoLocals EXCEPT !.op = "skip", !.tracenr = tracenr]
    /\ UNCHANGED <<trace_data, inputs, region_around_peak, peak_array,
                   valid_traces_array, is_running, pc, new_trace_length,
                   number_of_valid_traces, new_trace_count, warned,
                   new_trace_data, supplied>>

SkipTrace ==
    /\ pc \in {"Scanning", "Cutting"}
    /\ tracenr < trace_count
    /\ ~is_running
    /\ tracenr' = tracenr + 1
    /\ loc' = [NoLocals EXCEPT !.op = "skip", !.tracenr = tracenr]
    /\ UNCHANGED <<trace_data, inputs, region_around_peak, peak_array,
                   valid_traces_array, is_running, pc, new_trace_length,
                   number_of_valid_traces, new_trace_count, warned,
                   new_trace_data, supplied, progress>>

\* np.diff(self.peak_array)[0].max(): np.diff gives one row per trace, [0]
\* takes the row of trace 0, max() is taken over its single entry.
NewTraceLength(peaks, region) ==
    (peaks[1][2] - peaks[1][1]) + (region[2] - region[1])

NumberOfValid(valid) == Cardinality({t \in 1..Len(valid) : valid[t]})

\* Line 114: the count of valid traces is set on the output dataset; the
\* source keeps its own. Gives <<source, output>>.
SetCountOnSource(src, new, n) == <<set_number_of_traces(src, n), new>>

SetCount(src, new, n) == <<src, set_number_of_traces(new, n)>>

\* Lines 116-144: the amplitude channels of the source are registered
RegisterAmp(td, length) ==
    LET p == IF has_power(trace_data)
             THEN register_data_file(td, "power", length) ELSE td
    IN  IF has_em(trace_data) THEN register_data_file(p, "em", length) ELSE p

\* The scan loop has ended and the flag is set (lines 101-150)
ComputeCutGeometry ==
    /\ pc = "Scanning"
    /\ tracenr = trace_count
    /\ is_running
    /\ new_trace_length' = NewTraceLength(peak_array, region_around_peak)
    /\ number_of_valid_traces' = NumberOfValid(valid_traces_array)
    /\ LET counted == SetCount(trace_data, new_trace_data,
                               NumberOfValid(valid_traces_array))
       IN  /\ trace_data' = counted[1]
           /\ new_trace_data' = RegisterAmp(counted[2], new_trace_length')
    /\ new_trace_count' = 0
    /\ pc' = "Cutting"
    /\ tracenr' = 0
    /\ loc' = NoLocals
    /\ UNCHANGED <<inputs, region_around_peak, peak_array, valid_traces_array,
                   is_running, warned, supplied, progress>>

\* The scan loop has ended and the flag is cleared: run() returns (line 106)
RunStoppedFinalizing ==
    /\ pc = "Scanning"
    /\ tracenr = trace_count
    /\ ~is_running
    /\ pc' = "Done"
    /\ loc' = NoLocals
    /\ new_trace_data' =
           finish(FinalizeLoop(FinalizeTypes(trace_data), 1, new_trace_data))
    /\ UNCHANGED <<trace_data, inputs, region_around_peak, peak_array,
                   valid_traces_array, is_running, tracenr, new_trace_length,
                   number_of_valid_traces, new_trace_count, warned,
                   supplied, progress>>

RunStopped ==
    /\ pc = "Scanning"
    /\ tracenr = trace_count
    /\ ~is_running
    /\ pc' = "Done"
    /\ loc' = NoLocals
    /\ UNCHANGED <<trace_data, inputs, region_around_peak, peak_array,
                   valid_traces_array, is_running, tracenr, new_trace_length,
                   number_of_valid_traces, new_trace_count, warned,
                   new_trace_data, supplied, progress>>

\* One iteration of the cut loop (lines 151-156) with the flag set:
\* cut_and_modify_traces(tracenr, new_trace_length), then the progress signal.
\* An exception out of a modifying filter leaves run(): the thread ends.
CutTrace ==
    /\ pc = "Cutting"
    /\ tracenr < trace_count
    /\ is_running
    /\ IF ~valid_traces_array[tracenr + 1]
       THEN /\ loc' = [NoLocals EXCEPT !.op = "cut", !.tracenr = tracenr]
            /\ tracenr' = tracenr + 1
            /\ progress' = progress + 1
            /\ UNCHANGED <<new_trace_data, new_trace_count, supplied, pc>>
       ELSE LET start == peak_array[tracenr + 1][1] + region_around_peak[1]
                res == CutLoop(CutTypes(trace_data), 1, tracenr, start,
                               new_trace_length,
                               [td |-> new_trace_data, cut |-> EmptyMap,
                                sup |-> supplied, applied |-> EmptyMap,
                                raised |-> FALSE])
                here == [NoLocals EXCEPT !.op = "cut", !.tracenr = tracenr,
                                         !.start = start, !.cut = res.cut,
                                         !.cut_applied = res.applied]
            IN  /\ new_trace_data' = res.td
                /\ supplied' = res.sup
                /\ IF res.raised
                   THEN /\ pc' = "Aborted"
                        /\ loc' = [here EXCEPT !.op = "raised",
                                               !.during = "cut",
                                               !.error = "KeyError"]
                        /\ UNCHANGED <<new_trace_count, tracenr, progress>>
                   ELSE /\ new_trace_count' = new_trace_count + 1
                        /\ loc' = here
                        /\ tracenr' = tracenr + 1
                        /\ progress' = progress + 1
                        /\ pc' = pc
    /\ UNCHANGED <<trace_data, inputs, region_around_peak, peak_array,
                   valid_traces_array, is_running, new_trace_length,
                   number_of_valid_traces, warned>>

\* The cut loop has ended (lines 158-161): the count is compared, the reduced
\* channels are written and the dataset is sealed
FinalizeNewTraces ==
    /\ pc = "Cutting"
    /\ tracenr = trace_count
    /\ warned' = (new_trace_count # number_of_valid_traces)
    /\ new_trace_data' =
           finish(FinalizeLoop(FinalizeTypes(trace_data), 1, new_trace_data))
    /\ pc' = "Done"
    /\ loc' = NoLocals
    /\ UNCHANGED <<trace_data, inputs, region_around_peak, peak_array,
                   valid_traces_array, is_running, tracenr, new_trace_length,
                   number_of_valid_traces, new_trace_count, supplied, progress>>

Next ==
    \/ Stop
    \/ RunStart
    \/ ScanTrace
    \/ SkipTrace
    \/ ComputeCutGeometry
    \/ RunStopped
    \/ CutTrace
    \/ FinalizeNewTraces

Spec == Init /\ [][Next]_vars

\* The steps of the worker thread. Once started the thread is scheduled until
\* run() returns; stop() is the caller's and may never come.
Worker ==
    \/ RunStart
    \/ ScanTrace
    \/ SkipTrace
    \/ ComputeCutGeometry
    \/ RunStopped
    \/ CutTrace
    \/ FinalizeNewTraces

FairSpec == Spec /\ WF_vars(Worker)

(***************************************************************************)
(* Recording on a new dataset, as tests/test_allign_trace_data.py does it: *)
(* prepare_new_tracedata, set_number_of_traces(trace_count), then          *)
(* register_data_file for each channel before any trace is appended, then  *)
(* add_trace calls in any order.                                           *)
(***************************************************************************)
\* The rows the harness appends; registered rows are one sample long.
HarnessRows == {<<1>>, <<2>>}

Calls == Len(supplied["em"]) + Len(supplied["power"])

InitRecording ==
    \E ft \in Backends, n \in 0..(MaxTraces + 1) :
        /\ trace_data = OpenTraceData(ft, {"em"}, MaxTraces)
        /\ tracetype = "em"
        /\ trace_count = n
        /\ filter_dict = <<>>
        /\ trigger_dict = <<>>
        /\ region_around_peak = <<0, 0>>
        /\ peak_array = <<>>
        /\ valid_traces_array = <<>>
        /\ is_running = FALSE
        /\ pc = "Recording"
        /\ tracenr = 0
        /\ new_trace_length = 0
        /\ number_of_valid_traces = 0
        /\ new_trace_count = 0
        /\ warned = FALSE
        /\ new_trace_data = set_number_of_traces(prepare_new_tracedata(trace_data), n)
        /\ loc = NoLocals
        /\ supplied = NoSupplied
        /\ progress = 0

RecordRegister ==
    /\ pc = "Recording"
    /\ Calls = 0
    /\ \E c \in AmpChans \ DOMAIN new_trace_data.mm :
        new_trace_data' = register_data_file(new_trace_data, c, 1)
    /\ UNCHANGED <<trace_data, tracetype, trace_count, filter_dict, trigger_dict,
                   region_around_peak, peak_array, valid_traces_array,
                   is_running, pc, tracenr, new_trace_length,
                   number_of_valid_traces, new_trace_count, warned, loc,
                   supplied, progress>>

RecordAddTrace ==
    /\ pc = "Recording"
    /\ Calls < MaxCalls
    /\ \E c \in DOMAIN new_trace_data.mm, data \in HarnessRows :
        /\ new_trace_data' = add_trace(new_trace_data, c, data)
        /\ supplied' = [supplied EXCEPT ![c] = Append(@, data)]
    /\ UNCHANGED <<trace_data, tracetype, trace_count, filter_dict, trigger_dict,
                   region_around_peak, peak_array, valid_traces_array,
                   is_running, pc, tracenr, new_trace_length,
                   number_of_valid_traces, new_trace_count, warned, loc,
                   progress>>

NextRecording == RecordRegister \/ RecordAddTrace

SpecRecording == InitRecording /\ [][NextRecording]_vars

(***************************************************************************)
(* The triggers of align/trigger on concrete buffers. A buffer is a        *)
(* sequence of sample levels; positions are counted from 0 as in the code, *)
(* so position p is element p + 1 of the sequence.                         *)
(***************************************************************************)
MinDist == 10

Levels == {-1, 0, 1, 2}

Buffers == SeqUpTo(Levels, TraceLen) \ {<<>>}

\* np.argmax of a boolean array given as the set of its true positions over
\* n entries: the first true position, 0 when there is none.
ArgMax(truePositions) ==
    IF truePositions = {} THEN 0
    ELSE CHOOSE p \in truePositions : \A q \in truePositions : p <= q

\* tracelib/dsp.py matchRisingEdge and matchFallingEdge
matchRisingEdge(trace, offset, threshold) ==
    LET x == ArgMax({p \in 0..(Len(trace) - offset - 1) :
                        trace[offset + p + 1] > threshold})
    IN  IF x # 0 THEN x + offset ELSE x

matchFallingEdge(trace, offset, threshold) ==
    LET x == ArgMax({p \in 0..(Len(trace) - offset - 1) :
                        trace[offset + p + 1] < threshold})
    IN  IF x # 0 THEN x + offset ELSE x

\* RisingEdgeTrigger.process_data and FallingEdgeTrigger.process_data
RisingEdgeXmarks(input_data, offset, p) ==
    LET x == matchRisingEdge(input_data, offset, p.threshold)
    IN  IF x # 0 THEN <<Some(x)>> ELSE <<>>

FallingEdgeXmarks(input_data, offset, p) ==
    LET x == matchFallingEdge(input_data, offset, p.threshold)
    IN  IF x # 0 THEN <<Some(x)>> ELSE <<>>

\* tracelib/dsp.py findFirstPeak from loop position i on: <<>> for None,
\* else <<peakPos>>
RECURSIVE findFirstPeakFrom(_, _, _, _, _, _, _)
findFirstPeakFrom(trace, minDist, threshold, findMax, i, hasPeak, peakPos) ==
    IF i >= Len(trace)
    THEN IF hasPeak THEN <<peakPos>> ELSE <<>>
    ELSE IF findMax /\ trace[i + 1] > trace[peakPos + 1]
         THEN IF trace[i + 1] >= threshold
              THEN findFirstPeakFrom(trace, minDist, threshold, findMax,
                                     i + 1, TRUE, i)
              ELSE findFirstPeakFrom(trace, minDist, threshold, findMax,
                                     i + 1, hasPeak, peakPos)
         ELSE IF ~findMax /\ trace[i + 1] < trace[peakPos + 1]
         THEN IF trace[i + 1] <= threshold
              THEN findFirstPeakFrom(trace, minDist, threshold, findMax,
                                     i + 1, TRUE, i)
              ELSE findFirstPeakFrom(trace, minDist, threshold, findMax,
                                     i + 1, hasPeak, peakPos)
         ELSE IF hasPeak /\ (i - peakPos) > minDist
              THEN <<peakPos>>   \* break
              ELSE findFirstPeakFrom(trace, minDist, threshold, findMax,
                                     i + 1, hasPeak, peakPos)

findFirstPeak(trace, minDist, threshold, findMax) ==
    findFirstPeakFrom(trace, minDist, threshold, findMax, 0, FALSE, 0)

Reverse(s) == [i \in 1..Len(s) |-> s[Len(s) + 1 - i]]

findLastPeak(trace, minDist, threshold, findMax) ==
    LET peak == findFirstPeak(Reverse(trace), minDist, threshold, findMax)
    IN  IF peak # <<>> THEN <<Len(trace) - 1 - peak[1]>> ELSE peak

\* input_data[offset:]
From(input_data, offset) == SubSeq(input_data, offset + 1, Len(input_data))

\* FirstPeakFilter.process_data and LastPeakFilter.process_data
FirstPeakXmarks(input_data, offset, p) ==
    LET found_peak == findFirstPeak(From(input_data, offset), MinDist,
                                    p.threshold, p.threshold >= 0)
    IN  IF found_peak # <<>> THEN <<Some(found_peak[1] + offset)>> ELSE <<>>

LastPeakXmarks(input_data, offset, p) ==
    LET found_peak == findLastPeak(From(input_data, offset), MinDist,
                                   p.threshold, p.threshold >= 0)
    IN  IF found_peak # <<>> THEN <<Some(found_peak[1])>> ELSE <<>>

\* ThresholdTrigger.process_data, the loop of lines 213-234 from position i
\* on; peaks is the pair of the code, an unset entry being NoMark
RECURSIVE ThresholdLoop(_, _, _, _)
ThresholdLoop(input_data, p, i, peaks) ==
    IF i >= Len(input_data) THEN peaks
    ELSE LET v == input_data[i + 1]
             starts == IF p.inverse THEN v <= p.threshold - p.hysteresis
                       ELSE v >= p.threshold + p.hysteresis
             ends == IF p.inverse THEN v >= p.threshold + p.hysteresis
                     ELSE v <= p.threshold - p.hysteresis
         IN  IF peaks[1] = NoMark /\ starts
             THEN ThresholdLoop(input_data, p, i + 1, <<Some(i), peaks[2]>>)
             ELSE IF peaks[1] # NoMark /\ ends
             THEN IF i - peaks[1][1] >= p.min_range
                  THEN <<peaks[1], Some(i)>>   \* break
                  ELSE ThresholdLoop(input_data, p, i + 1, <<NoMark, NoMark>>)
             ELSE ThresholdLoop(input_data, p, i + 1, peaks)

ThresholdXmarks(input_data, offset, p) ==
    LET peaks == ThresholdLoop(input_data, p, offset, <<NoMark, NoMark>>)
    IN  IF peaks[1] = NoMark \/ peaks[2] = NoMark
        THEN <<NoMark, NoMark>>
        ELSE peaks

\* HoldoffTrigger.process_data
HoldoffXmarks(input_data, offset, p) ==
    IF offset + p.holdoff < Len(input_data)
    THEN <<Some(offset + p.holdoff)>>
    ELSE <<>>

\* One call of process_data with all declared parameters
TriggerCall(k, d, o, p, l) ==
    [op |-> "trigger", kind |-> k, data |-> d, offset |-> o, parameter |-> p,
     xmarks |-> l]

InitTriggerCalls ==
    /\ trace_data = OpenTraceData("npy", {"em"}, MaxTraces)
    /\ tracetype = "em"
    /\ trace_count = 0
    /\ filter_dict = <<>>
    /\ trigger_dict = <<>>
    /\ region_around_peak = <<0, 0>>
    /\ peak_array = <<>>
    /\ valid_traces_array = <<>>
    /\ is_running = FALSE
    /\ pc = "Triggering"
    /\ tracenr = 0
    /\ new_trace_length = 0
    /\ number_of_valid_traces = 0
    /\ new_trace_count = 0
    /\ warned = FALSE
    /\ new_trace_data = prepare_new_tracedata(trace_data)
    /\ loc = NoLocals
    /\ supplied = NoSupplied
    /\ progress = 0

Thresholds == {-1, 1}

Called(call) ==
    /\ pc = "Triggering"
    /\ pc' = "Triggered"
    /\ loc' = call
    /\ UNCHANGED <<trace_data, inputs, region_around_peak, peak_array,
                   valid_traces_array, is_running, tracenr,
                   new_trace_length, number_of_valid_traces, new_trace_count,
                   warned, new_trace_data, supplied, progress>>

CallRisingEdge ==
    \E d \in Buffers, t \in Thresholds :
        \E o \in 0..(Len(d) - 1) :
            LET p == [threshold |-> t]
            IN  Called(TriggerCall("rising_edge_trigger", d, o, p,
                                   RisingEdgeXmarks(d, o, p)))

CallFallingEdge ==
    \E d \in Buffers, t \in Thresholds :
        \E o \in 0..(Len(d) - 1) :
            LET p == [threshold |-> t]
            IN  Called(TriggerCall("falling_edge_trigger", d, o, p,
                                   FallingEdgeXmarks(d, o, p)))

CallFirstPeak ==
    \E d \in Buffers, t \in Thresholds :
        \E o \in 0..(Len(d) - 1) :
            LET p == [threshold |-> t]
            IN  Called(TriggerCall("first_peak_trigger", d, o, p,
                                   FirstPeakXmarks(d, o, p)))

CallLastPeak ==
    \E d \in Buffers, t \in Thresholds :
        \E o \in 0..(Len(d) - 1) :
            LET p == [threshold |-> t]
            IN  Called(TriggerCall("last_peak_filter", d, o, p,
                                   LastPeakXmarks(d, o, p)))

CallThreshold ==
    \E d \in Buffers, h \in {0, 1}, m \in {1, 2}, inv \in BOOLEAN :
        \E o \in 0..(Len(d) - 1) :
            LET p == [threshold |-> 1, hysteresis |-> h, min_range |-> m,
                      inverse |-> inv]
            IN  Called(TriggerCall("threshold_trigger", d, o, p,
                                   ThresholdXmarks(d, o, p)))

CallHoldoff ==
    \E d \in Buffers, h \in {0, 1, 2} :
        \E o \in 0..(Len(d) - 1) :
            LET p == [holdoff |-> h]
            IN  Called(TriggerCall("hold_off", d, o, p,
                                   HoldoffXmarks(d, o, p)))

NextTriggers ==
    \/ CallRisingEdge
    \/ CallFallingEdge
    \/ CallFirstPeak
    \/ CallLastPeak
    \/ CallThreshold
    \/ CallHoldoff

SpecTriggers == InitTriggerCalls /\ [][NextTriggers]_vars

(***************************************************************************)
(* The trigger chain of one scanned trace with its process_data calls:     *)
(* lines 181-219 of run_filters_and_triggers on a buffer of a given size,  *)
(* without filters.                                                        *)
(***************************************************************************)
ChainRegion == <<0, 1>>

InitTriggerChain ==
    /\ trace_data = OpenTraceData("npy", {"em"}, MaxTraces)
    /\ tracetype = "em"
    /\ trace_count = 1
    /\ filter_dict = <<>>
    /\ trigger_dict \in TriggerChains \ {<<>>}
    /\ region_around_peak = ChainRegion
    /\ peak_array = <<<<0, 0>>>>
    /\ valid_traces_array = <<FALSE>>
    /\ is_running = TRUE
    /\ pc = "Chaining"
    /\ tracenr = 0
    /\ new_trace_length = 0
    /\ number_of_valid_traces = 0
    /\ new_trace_count = 0
    /\ warned = FALSE
    /\ new_trace_data = prepare_new_tracedata(trace_data)
    /\ loc = NoLocals
    /\ supplied = NoSupplied
    /\ progress = 0

RunTriggerChain ==
    /\ pc = "Chaining"
    /\ \E size \in 1..TraceLen :
         \E out \in run_triggers(trigger_dict, 1, NoXmarks, Some(0), <<>>, size) :
            /\ loc' = [op |-> "chain", size |-> size, calls |-> out.calls,
                       raised |-> out.raised, xmarks |-> out.xmarks]
            /\ IF out.raised
               THEN /\ pc' = "Aborted"
                    /\ UNCHANGED <<valid_traces_array, peak_array,
                                   region_around_peak>>
               ELSE LET r == Classify(out.xmarks, "None", size,
                                      region_around_peak, peak_array[1])
                    IN  /\ pc' = "Chained"
                        /\ valid_traces_array' = <<r[1]>>
                        /\ peak_array' = <<r[2]>>
                        /\ region_around_peak' = r[3]
    /\ UNCHANGED <<trace_data, inputs, is_running, tracenr, new_trace_length,
                   number_of_valid_traces, new_trace_count, warned,
                   new_trace_data, supplied, progress>>

NextTriggerChain == RunTriggerChain

SpecTriggerChain == InitTriggerChain /\ [][NextTriggerChain]_vars

(***************************************************************************)
(* Opening a dataset: AlignTraceDataFactory.open_trace_data and the size   *)
(* check of a complete D15 channel file (DataObject.load, getSpareBytes).  *)
(***************************************************************************)
\* largest size in bytes of a channel file
MaxFileSize == 12

\* dtype.itemsize of the channel
ItemSizes == {1, 2, 4}

\* What a caller can pass to open_trace_data: its Python type and, for a
\* string or Path, the extension os.path.splitext gives.
OpenArguments ==
    [type : {"str", "Path"}, ext : {".meta", ".META", ".npy", ".dat", ""}]
    \cup [type : {"dict", "NoneType", "int", "list"}, ext : {""}]

\* AlignTraceDataFactory.open_trace_data: the class of the object returned,
\* "None" when the function falls off its end, or "ValueError".
open_trace_data(trace_data_file) ==
    IF trace_data_file.type \in {"str", "Path"}
    THEN IF trace_data_file.ext = ".meta" THEN "D15TraceData" ELSE "None"
    ELSE IF trace_data_file.type = "dict" THEN "NumpyArrays"
    ELSE "ValueError"

\* helperFunctions.getSpareBytes: <<raised, spareBytes>>
getSpareBytes(fileSize, nrTraces, length, itemsize) ==
    LET arraySize == itemsize * nrTraces * length
    IN  IF fileSize = arraySize THEN <<FALSE, 0>>
        ELSE IF fileSize < arraySize THEN <<TRUE, 0>>   \* ValueError
        ELSE IF (fileSize - arraySize) % nrTraces = 0
             THEN <<FALSE, (fileSize - arraySize) \div nrTraces>>
             ELSE <<FALSE, 0>>

\* DataObject.load of a complete channel file: the spare bytes are added to
\* the length (counted in samples) and the file is mapped read-only with
\* shape (nrTraces, length); np.memmap raises ValueError when the shape needs
\* more bytes than the file holds. Gives <<raised, length>>.
load(fileSize, nrTraces, length, itemsize) ==
    LET spare == getSpareBytes(fileSize, nrTraces, length, itemsize)
        extended == length + spare[2]
    IN  IF spare[1] THEN <<TRUE, length>>
        ELSE IF itemsize * nrTraces * extended > fileSize
             THEN <<TRUE, extended>>
             ELSE <<FALSE, extended>>

InitOpening ==
    /\ trace_data = OpenTraceData("d15", {"em"}, MaxTraces)
    /\ tracetype = "em"
    /\ trace_count = 0
    /\ filter_dict = <<>>
    /\ trigger_dict = <<>>
    /\ region_around_peak = <<0, 0>>
    /\ peak_array = <<>>
    /\ valid_traces_array = <<>>
    /\ is_running = FALSE
    /\ pc = "Opening"
    /\ tracenr = 0
    /\ new_trace_length = 0
    /\ number_of_valid_traces = 0
    /\ new_trace_count = 0
    /\ warned = FALSE
    /\ new_trace_data = prepare_new_tracedata(trace_data)
    /\ loc = NoLocals
    /\ supplied = NoSupplied
    /\ progress = 0

Opened(call) ==
    /\ pc = "Opening"
    /\ pc' = "Opened"
    /\ loc' = call
    /\ UNCHANGED <<trace_data, inputs, region_around_peak, peak_array,
                   valid_traces_array, is_running, tracenr,
                   new_trace_length, number_of_valid_traces, new_trace_count,
                   warned, new_trace_data, supplied, progress>>

CallOpenTraceData ==
    \E t \in {"str", "Path", "dict", "NoneType", "int", "list"},
       e \in {".meta", ".META", ".npy", ".dat", ""} :
        LET arg == [type |-> t, ext |-> e]
        IN  /\ arg \in OpenArguments
            /\ Opened([op |-> "open", type |-> t, ext |-> e,
                       result |-> open_trace_data(arg)])

CallLoad ==
    \E fileSize \in 0..MaxFileSize, nrTraces \in 1..MaxTraces,
       length \in 1..TraceLen, itemsize \in ItemSizes :
        LET r == load(fileSize, nrTraces, length, itemsize)
        IN  Opened([op |-> "load", fileSize |-> fileSize,
                    nrTraces |-> nrTraces, declared |-> length,
                    itemsize |-> itemsize, raised |-> r[1], length |-> r[2]])

NextOpening == CallOpenTraceData \/ CallLoad

SpecOpening == InitOpening /\ [][NextOpening]_vars

(***************************************************************************)
(* Properties.                                                             *)
(***************************************************************************)
ValidTraces == {t \in 1..Len(valid_traces_array) : valid_traces_array[t]}

\* The cut geometry was computed in this run.
GeometryDone == pc = "Cutting" \/ (pc = "Done" /\ new_trace_data.finished)

\* The trace scanned last, as a 1-based row
ScannedRow == loc.tracenr + 1

\* Sample count of the source trace scanned or cut last, on channel c
SampleCount(c) == Len(get_trace(trace_data, c, loc.tracenr))

ModifyingFilterRequested ==
    \E i \in 1..Len(filter_dict) : filter_dict[i].modify_data = "True"

\* C1: once the cut geometry is computed, new_trace_length is the maximum of
\* anchor2 - anchor1 over all valid traces plus region_end - region_start.
C1_NewLengthIsMaxOverValid ==
    (GeometryDone /\ ValidTraces # {}) =>
        new_trace_length =
            SetMax({peak_array[t][2] - peak_array[t][1] : t \in ValidTraces})
            + (region_around_peak[2] - region_around_peak[1])

\* C2: a scanned trace with exactly one mark m is valid iff m + region_start
\* >= 0 and m + region_end <= the trace's sample count; when valid its anchor
\* pair is (m, m).
C2_SingleMarkValidIffInBounds ==
    (loc.op = "scan" /\ ~loc.xmarks.is_none /\ Len(loc.xmarks.list) = 1
        /\ loc.xmarks.list[1] # NoMark) =>
        LET m == loc.xmarks.list[1][1]
            inBounds == /\ m + loc.region[1] >= 0
                        /\ m + loc.region[2] <= SampleCount(tracetype)
        IN  /\ valid_traces_array[ScannedRow] <=> inBounds
            /\ valid_traces_array[ScannedRow] => peak_array[ScannedRow] = <<m, m>>

\* C3: a scanned trace with two marks (m1, m2) is valid iff m1 + region_start
\* >= 0 and m2 + region_end <= the trace's sample count; when valid its anchor
\* pair is (m1, m2).
C3_MarkPairValidIffInBounds ==
    (loc.op = "scan" /\ ~loc.xmarks.is_none /\ Len(loc.xmarks.list) = 2
        /\ loc.xmarks.list[1] # NoMark /\ loc.xmarks.list[2] # NoMark) =>
        LET m1 == loc.xmarks.list[1][1]
            m2 == loc.xmarks.list[2][1]
            inBounds == /\ m1 + loc.region[1] >= 0
                        /\ m2 + loc.region[2] <= SampleCount(tracetype)
        IN  /\ valid_traces_array[ScannedRow] <=> inBounds
            /\ valid_traces_array[ScannedRow] => peak_array[ScannedRow] = <<m1, m2>>

\* The trigger chain yielded no mark: no list at all, or an empty list.
ZeroMarks(x) == x.is_none \/ x.list = <<>>

\* C4: a scanned trace with 0 marks while a modifying filter was requested is
\* valid with anchor pair (0, 0) and the cut region becomes [0, trace length],
\* with or without a configured trigger and wherever the modifying filter
\* stands in the chain.
C4_ZeroMarksWithModifyingFilterIsWholeTrace ==
    (loc.op = "scan" /\ ZeroMarks(loc.xmarks) /\ ModifyingFilterRequested) =>
        /\ valid_traces_array[ScannedRow]
        /\ peak_array[ScannedRow] = <<0, 0>>
        /\ region_around_peak = <<0, SampleCount(tracetype)>>

\* The mark lists that make a trace invalid whatever the region is.
InvalidMarks(x) ==
    \/ ZeroMarks(x) /\ ~ModifyingFilterRequested
    \/ ~x.is_none /\ Len(x.list) \notin {1, 2}
    \/ ~x.is_none /\ \E i \in 1..Len(x.list) : x.list[i] = NoMark

\* Traces the scan loop has passed.
Scanned(t) == pc \in {"Cutting", "Done"} \/ (pc = "Scanning" /\ t <= tracenr)

\* C5: a trace scanned with 0 marks and no modifying filter requested, with a
\* returned mark list of a length other than 1 or 2, or with a null mark, is
\* classified invalid; the flag of an invalid trace stays false and the cut
\* pass writes nothing for it.
C5_InvalidTracesExcluded ==
    [][/\ (loc'.op = "scan" /\ InvalidMarks(loc'.xmarks))
            => ~valid_traces_array'[loc'.tracenr + 1]
       /\ \A t \in 1..Len(valid_traces_array) :
            (Scanned(t) /\ ~valid_traces_array[t]) => ~valid_traces_array'[t]
       /\ (pc = "Cutting" /\ tracenr < trace_count /\ tracenr' = tracenr + 1
              /\ ~valid_traces_array[tracenr + 1])
            => /\ new_trace_data' = new_trace_data
               /\ new_trace_count' = new_trace_count
               /\ supplied' = supplied]_vars

C5_Witness ==
    /\ loc.op = "scan"
    /\ loc.tracenr > 0
    /\ valid_traces_array[1]
    /\ ModifyingFilterRequested
    /\ ~loc.xmarks.is_none
    /\ Len(loc.xmarks.list) = 3
    /\ ~valid_traces_array[ScannedRow]

\* C6: in a run in which stop() is never requested, every amplitude channel of
\* the output holds, when the cut pass has ended, as many stored rows as there
\* are valid traces.
C6_RowsStoredEqualValidCount ==
    (pc = "Done" /\ new_trace_data.finished /\ is_running) =>
        \A c \in AmpChans \cap DOMAIN trace_data.mm :
            Cardinality(new_trace_data.mm[c].written) = Cardinality(ValidTraces)

\* C7: for a valid trace every amplitude channel is cut to exactly
\* new_trace_length samples, source[start : start + new_trace_length] with
\* start = anchor1 + region_start >= 0, zero-filled past the end of the source.
C7_CutSliceHasNewLength ==
    (loc.op = "cut" /\ valid_traces_array[loc.tracenr + 1]) =>
        /\ loc.start >= 0
        /\ loc.start = peak_array[loc.tracenr + 1][1] + region_around_peak[1]
        /\ DOMAIN loc.cut = AmpChans \cap DOMAIN trace_data.mm
        /\ \A c \in DOMAIN loc.cut :
            LET src == get_trace(trace_data, c, loc.tracenr)
            IN  /\ loc.cut[c] = [i \in 1..new_trace_length |->
                                    IF loc.start + i <= Len(src)
                                    THEN src[loc.start + i] ELSE 0]
                /\ supplied[c] # <<>>
                /\ Len(supplied[c][Len(supplied[c])]) = new_trace_length

C7_Witness ==
    /\ loc.op = "cut"
    /\ valid_traces_array[loc.tracenr + 1]
    /\ \E c \in DOMAIN loc.cut :
        /\ loc.start + new_trace_length > SampleCount(c)
        /\ loc.start < SampleCount(c)
        /\ loc.start > 0

\* C8: on the array backend the k-th add_trace on a registered channel stores
\* its data as row k-1 of that channel (row k here), for every k up to the
\* declared trace count, whatever was added to other channels in between.
C8_AppendOnlyPerChannel ==
    new_trace_data.file_type = "npy" =>
        \A c \in DOMAIN new_trace_data.mm :
            \A k \in 1..Min(Len(supplied[c]), new_trace_data.number_of_traces) :
                /\ k \in new_trace_data.mm[c].written
                /\ new_trace_data.mm[c].rows[k] = supplied[c][k]

\* C9: once the output dataset is sealed, all its channels hold the same
\* number of rows.
C9_ChannelsShareRowCount ==
    new_trace_data.finished =>
        \A c, d \in DOMAIN new_trace_data.mm :
            Len(new_trace_data.mm[c].rows) = Len(new_trace_data.mm[d].rows)

\* C10: on the array backend with one registered channel and declared trace
\* count N, after k add_trace calls the channel holds exactly the first
\* min(k, N) supplied rows in call order, no call raised, and the trace count
\* is still N.
C10_ExcessTracesDropped ==
    (new_trace_data.file_type = "npy" /\ Cardinality(DOMAIN new_trace_data.mm) = 1) =>
        \A c \in DOMAIN new_trace_data.mm :
            LET k == Len(supplied[c])
                kept == Min(k, trace_count)
            IN  /\ Len(new_trace_data.mm[c].rows) = trace_count
                /\ new_trace_data.mm[c].written = 1..kept
                /\ \A i \in 1..kept : new_trace_data.mm[c].rows[i] = supplied[c][i]
                /\ ~new_trace_data.raised
                /\ get_number_of_traces(new_trace_data) = trace_count

C10_Witness ==
    /\ new_trace_data.file_type = "npy"
    /\ DOMAIN new_trace_data.mm = {"em"}
    /\ trace_count = MaxTraces + 1
    /\ Len(supplied["em"]) = trace_count + 1

\* C11: on the metafile backend a channel registered for N traces stores the
\* first N traces added to it and drops every further one: after k add_trace
\* calls it holds the first min(k, N) supplied rows, and no call raised.
C11_D15ExcessTracesDropped ==
    new_trace_data.file_type = "d15" =>
        \A c \in DOMAIN new_trace_data.mm :
            LET kept == Min(Len(supplied[c]), get_number_of_traces(new_trace_data))
            IN  /\ new_trace_data.mm[c].rows = SubSeq(supplied[c], 1, kept)
                /\ Cardinality(new_trace_data.mm[c].written) = kept
                /\ ~new_trace_data.raised

\* Indices of the true entries of a mask that lie within n rows.
TrueIndices(mask, n) == {i \in 1..Min(Len(mask), n) : mask[i]}

\* C12: when a run is finalized, each of the channels plain and cipher of the
\* output holds exactly the source rows whose entry in the validity mask is
\* true, in increasing index order; source rows past the end of the mask are
\* left out, and the stored row count is the number of true mask entries.
C12_ReduceKeepsMaskedRows ==
    (pc = "Done" /\ new_trace_data.finished) =>
        \A c \in AuxChans \cap DOMAIN trace_data.mm :
            LET data == get_traces(trace_data, c)
                idx == TrueIndices(valid_traces_array, Len(data))
                out == new_trace_data.mm[c].rows
            IN  /\ Len(out) = Cardinality(idx)
                /\ Len(out) = Cardinality(ValidTraces)
                /\ \A i \in idx :
                       out[Cardinality({j \in idx : j <= i})] = data[i]

C12_Witness ==
    /\ pc = "Done"
    /\ new_trace_data.finished
    /\ new_trace_data.file_type = "d15"
    /\ has_plain(new_trace_data)
    /\ has_cipher(new_trace_data)
    /\ \E i, j \in 1..Len(valid_traces_array) :
        i < j /\ ~valid_traces_array[i] /\ valid_traces_array[j]

\* Every list a trigger returns on a buffer lies in the set the scan step
\* draws from for that trigger, offset and buffer size.
TriggerReturnsCoverCalls ==
    loc.op = "trigger" =>
        Returned(loc.xmarks) \in
            TriggerReturns(loc.kind, Some(loc.offset), Len(loc.data))

\* C13: every trigger called with all its declared parameters returns a mark
\* list without null entries (an empty list when no mark is found), for every
\* input buffer and offset.
C13_TriggersReturnNoNull ==
    loc.op = "trigger" =>
        \A i \in 1..Len(loc.xmarks) : loc.xmarks[i] # NoMark

\* The calls of the chain that returned a mark list.
ReturnedCalls == {k \in 1..Len(loc.calls) : loc.calls[k].result = "xmarks"}

LastReturned == CHOOSE k \in ReturnedCalls : \A j \in ReturnedCalls : j <= k

\* C14: in the trigger chain of a scanned trace the first trigger is called
\* with offset 0 and every later one with the first mark the trigger before it
\* returned; triggers are called in declared order; the chain stops at the
\* first trigger that returns an empty list (and goes on otherwise); the trace
\* is classified with the marks of the last trigger that returned.
C14_CascadingTriggerChain ==
    loc.op = "chain" =>
        LET c == loc.calls
        IN  /\ Len(c) >= 1 /\ Len(c) <= Len(trigger_dict)
            /\ c[1].offset = Some(0)
            /\ \A k \in 1..Len(c) : c[k].kind = trigger_dict[k].kind
            /\ \A k \in 2..Len(c) :
                   /\ c[k - 1].result = "xmarks"
                   /\ c[k - 1].list # <<>>
                   /\ c[k].offset = c[k - 1].list[1]
            /\ Len(c) < Len(trigger_dict) =>
                   \/ c[Len(c)].result # "xmarks"
                   \/ c[Len(c)].list = <<>>
            /\ ~loc.raised =>
                   LET used == IF ReturnedCalls = {} THEN NoXmarks
                               ELSE Xmarks(c[LastReturned].list)
                       r == Classify(used, "None", loc.size, ChainRegion,
                                     <<0, 0>>)
                   IN  /\ loc.xmarks = used
                       /\ valid_traces_array = <<r[1]>>
                       /\ peak_array = <<r[2]>>

\* A threshold trigger returned the range (1, 2), the next trigger was called
\* with offset 1 and returned one mark, which made the trace valid.
C14_Witness ==
    /\ loc.op = "chain"
    /\ Len(loc.calls) = 2
    /\ loc.calls[1].list = <<Some(1), Some(2)>>
    /\ loc.calls[2].offset = Some(1)
    /\ loc.calls[2].result = "xmarks"
    /\ Len(loc.calls[2].list) = 1
    /\ valid_traces_array = <<TRUE>>

\* The stages of the declared filter chain whose modify_data flag is true,
\* and the others, each in declared order.
ModifyingStages ==
    LET flagged(f) == f.modify_data = "True" IN SelectSeq(filter_dict, flagged)

OtherStages ==
    LET plain(f) == f.modify_data # "True" IN SelectSeq(filter_dict, plain)

\* C15: while a trace is scanned no filter whose modify_data flag is true is
\* applied and every other filter is applied in declared order; while a trace
\* is cut exactly the filters whose flag is true are applied to each cut
\* slice, in declared order and with their declared parameters.
C15_ModifyingFiltersOnlyWhenCutting ==
    /\ loc.op = "scan" => loc.applied = OtherStages
    /\ loc.op = "cut" =>
           \A c \in DOMAIN loc.cut_applied :
               /\ loc.cut_applied[c] = ModifyingStages
               /\ LET row == supplied[c][Len(supplied[c])]
                  IN  row = [i \in 1..Len(loc.cut[c]) |->
                                loc.cut[c][i] + 1000 * Len(ModifyingStages)]

\* A trace was cut under a chain of one filter without the flag and one with
\* the flag set, after a scan on the moving-average output.
C15_Witness ==
    /\ loc.op = "cut"
    /\ "em" \in DOMAIN loc.cut_applied
    /\ Len(filter_dict) = 2
    /\ Len(ModifyingStages) = 1
    /\ filter_dict[1].name = "moving_average_filter"

\* C16: a missing-parameter error (KeyError) raised by a stage of the trigger
\* chain or of the filter chain while a trace is scanned does not end the run:
\* the thread goes on to the next trace and to the cutting pass.
C16_KeyErrorNeverAbortsScan ==
    (loc.during = "scan" /\ loc.error = "KeyError") => pc # "Aborted"

\* The trigger chain holds only triggers shipped in align/trigger.
ShippedTriggers ==
    \A k \in 1..Len(trigger_dict) : trigger_dict[k].kind # "example_trigger"

\* C17: a trace in which a trigger finds no mark is a data-level outcome: for
\* every chain of shipped triggers (a threshold trigger followed by another
\* trigger included) the scan of the trace ends with a classification and the
\* run goes on; no exception ends it.
C17_NoMarkNeverAborts ==
    (ShippedTriggers /\ loc.during = "scan" /\ loc.error = "TypeError")
        => pc # "Aborted"

\* C18: once the flag is cleared while run() is in one of its per-trace loops,
\* no further trace is scanned or cut and no further progress signal is
\* emitted, the flag stays cleared, and nothing already recorded in the output
\* dataset is taken back.
C18_StopHaltsIteration ==
    [][(~is_running /\ pc \in {"Scanning", "Cutting"}) =>
          /\ ~is_running'
          /\ progress' = progress
          /\ (loc' = loc \/ loc'.op \in {"skip", "none"})
          /\ valid_traces_array' = valid_traces_array
          /\ peak_array' = peak_array
          /\ supplied' = supplied
          /\ new_trace_count' = new_trace_count
          /\ pc' \in {pc, "Done"}
          /\ DOMAIN new_trace_data.mm \subseteq DOMAIN new_trace_data'.mm
          /\ \A c \in DOMAIN new_trace_data.mm :
                 new_trace_data'.mm[c].rows = new_trace_data.mm[c].rows]_vars

\* stop() arrived in the cut loop after the first trace was cut: the second
\* trace, valid as well, was passed over.
C18_Witness ==
    /\ pc = "Cutting"
    /\ ~is_running
    /\ loc.op = "skip"
    /\ loc.tracenr = 1
    /\ new_trace_count = 1
    /\ valid_traces_array[2]
    /\ progress = trace_count + 1

\* The channels of the output dataset that hold a row handed to add_trace.
CutChannels == {c \in Chans : supplied[c] # <<>>}

\* C19: the operations of a run occur in phase order. Before the scan loop
\* has passed all trace_count indices nothing is registered or cut; the run
\* enters the cut loop only from the end of the scan loop; a row is handed to
\* add_trace only in the cut loop and only for an em/power channel that is
\* already registered; the plain/cipher channels appear only in the step that
\* follows the end of the cut loop; the dataset is sealed only in that step,
\* and nothing is done to it afterwards.
C19_PhaseOrder ==
    /\ [](/\ pc \in {"Idle", "Scanning"} =>
                /\ DOMAIN new_trace_data.mm = {}
                /\ CutChannels = {}
          /\ CutChannels \subseteq AmpChans \cap DOMAIN new_trace_data.mm
          /\ new_trace_data.finished => pc = "Done"
          /\ pc # "Done" => AuxChans \cap DOMAIN new_trace_data.mm = {})
    /\ [][/\ (pc # "Cutting" /\ pc' = "Cutting") =>
                 (pc = "Scanning" /\ tracenr = trace_count)
          /\ supplied' # supplied =>
                 /\ pc = "Cutting"
                 /\ tracenr < trace_count
                 /\ \A c \in Chans :
                        supplied'[c] # supplied[c] =>
                            c \in DOMAIN new_trace_data.mm
          /\ new_trace_data'.finished # new_trace_data.finished =>
                 (pc = "Cutting" /\ tracenr = trace_count /\ pc' = "Done")
          /\ new_trace_data.finished => new_trace_data' = new_trace_data]_vars

\* A run over a dataset with all four channels is done and sealed, with a
\* trace cut into both amplitude channels and the reduced channels written.
C19_Witness ==
    /\ pc = "Done"
    /\ new_trace_data.finished
    /\ CutChannels = AmpChans
    /\ DOMAIN new_trace_data.mm = Chans

\* C20: no step of a batch changes the source dataset: its trace count, its
\* channels and every row of every channel stay as they were opened, for both
\* backends and whether or not stop() was called.
C20_SourceUnchanged ==
    [][/\ get_number_of_traces(trace_data') = get_number_of_traces(trace_data)
       /\ DOMAIN trace_data'.mm = DOMAIN trace_data.mm
       /\ \A c \in DOMAIN trace_data.mm :
              get_traces(trace_data', c) = get_traces(trace_data, c)
       /\ trace_data' = trace_data]_vars

\* A run on a D15 dataset is done and sealed after a cut that overran the
\* trace end and was zero-padded, and after stop() was called.
C20_Witness ==
    /\ pc = "Done"
    /\ new_trace_data.finished
    /\ trace_data.file_type = "d15"
    /\ \E r \in 1..Len(supplied["em"]) :
           \E i \in 1..Len(supplied["em"][r]) : supplied["em"][r][i] = 0
    /\ ~is_running

\* C21: the output of an unstopped run is a function of its inputs: when the
\* run is done every row of every output channel was assigned from the source
\* data, none is left as allocated (uninitialised memory, which differs from
\* run to run).
C21_OutputDeterminedByInputs ==
    (pc = "Done" /\ new_trace_data.finished /\ is_running) =>
        \A c \in DOMAIN new_trace_data.mm :
            new_trace_data.mm[c].written = 1..Len(new_trace_data.mm[c].rows)

\* C22: every started run ends. run() returns (or, when a filter or trigger
\* raised, is left by that exception and by nothing else); neither loop
\* passes more than trace_count indices nor emits more than trace_count
\* progress signals per pass; a run that was never stopped has sealed the
\* output dataset when it returns.
C22_RunTerminates ==
    /\ <>(pc \in {"Done", "Aborted"})
    /\ [](/\ tracenr <= trace_count
          /\ progress <= 2 * trace_count
          /\ pc = "Aborted" => loc.error # "none"
          /\ (pc = "Done" /\ is_running) => new_trace_data.finished)

\* An unstopped run over all traces of the dataset has returned with the
\* output sealed.
C22_Witness ==
    /\ pc = "Done"
    /\ is_running
    /\ new_trace_data.finished
    /\ trace_count = MaxTraces
    /\ tracenr = trace_count
    /\ progress = 2 * trace_count

\* C23: open_trace_data raises ValueError for every argument that is neither
\* a path to a .meta file nor a channel-to-file mapping, a string or Path
\* with another extension included; it never returns without a dataset.
C23_OpenRejectsUnsupported ==
    loc.op = "open" =>
        /\ loc.result # "None"
        /\ (loc.type \notin {"str", "Path", "dict"}
            \/ (loc.type \in {"str", "Path"} /\ loc.ext # ".meta"))
               => loc.result = "ValueError"

\* C24: a complete channel file larger than nrTraces * length * itemsize
\* whose surplus divides evenly by nrTraces loads without failure, with the
\* length extended so that nrTraces * length * itemsize is the file size, for
\* every item size; a file smaller than declared fails with ValueError.
C24_SpareBytesExtendLength ==
    loc.op = "load" =>
        LET arraySize == loc.itemsize * loc.nrTraces * loc.declared
        IN  /\ (loc.fileSize > arraySize
                /\ (loc.fileSize - arraySize) % loc.nrTraces = 0)
                    => /\ ~loc.raised
                       /\ loc.nrTraces * loc.length * loc.itemsize = loc.fileSize
            /\ loc.fileSize < arraySize => loc.raised

\* C25: the dataset prepare_new_tracedata returns is of the backend kind of
\* the source, holds the source's trace count and no channel: until the scan
\* pass has ended (nothing is registered before) none of has_em, has_power,
\* has_plain, has_cipher is true; later a channel is present only when it was
\* registered, so registering and appending to em leaves power absent.
C25_NewDatasetStartsEmpty ==
    /\ new_trace_data.file_type = trace_data.file_type
    /\ pc \in {"Idle", "Scanning"} =>
           /\ get_number_of_traces(new_trace_data) =
                  get_number_of_traces(trace_data)
           /\ ~has_em(new_trace_data) /\ ~has_power(new_trace_data)
           /\ ~has_plain(new_trace_data) /\ ~has_cipher(new_trace_data)
    /\ pc = "Cutting" =>
           \A c \in Chans :
               has(new_trace_data, c) <=> (c \in AmpChans /\ has(trace_data, c))

\* On a D15 source with em, plain and cipher, em was registered on the new
\* dataset and a trace appended to it; power is absent.
C25_Witness ==
    /\ pc = "Cutting"
    /\ trace_data.file_type = "d15"
    /\ has_em(new_trace_data)
    /\ Len(get_traces(new_trace_data, "em")) = 1
    /\ ~has_power(new_trace_data)
    /\ ~has_power(trace_data)

\* C26: a stop request is never lost: the flag is cleared by stop() only, and
\* once it is cleared it stays cleared, whenever stop() arrives after the
\* thread was started, so that nothing is scanned or cut after the request.
C26_StopNeverLost ==
    [][~is_running => (~is_running' /\ loc'.op \notin {"scan", "cut"})]_vars

\* The k-th valid trace in increasing index order (k from 1).
KthValid(k) ==
    CHOOSE t \in ValidTraces : Cardinality({u \in ValidTraces : u <= t}) = k

\* The samples of an output row of channel c come from source trace t: every
\* sample that is not padding (0, or 1000 per filter applied to it) is a
\* sample of that trace, filtered or not.
DerivesFrom(row, c, t) ==
    \A i \in 1..Len(row) :
        row[i] % 1000 # 0 =>
            \E j \in 1..SrcLen(c) : row[i] % 1000 = Sample(c, t, j)

\* C27: after an unstopped run every output channel holds one assigned row
\* per valid trace, and row i of every channel derives from the i-th valid
\* trace, so the rows of em, power, plain and cipher belong together.
C27_RowsAlignedAcrossChannels ==
    (pc = "Done" /\ new_trace_data.finished /\ is_running) =>
        \A c \in DOMAIN new_trace_data.mm :
            LET rows == new_trace_data.mm[c].rows
            IN  /\ Len(rows) = Cardinality(ValidTraces)
                /\ \A i \in 1..Len(rows) :
                       /\ i \in new_trace_data.mm[c].written
                       /\ DerivesFrom(rows[i], c, KthValid(i))

\* The same on the D15 backend alone.
RowsAlignedOnD15 ==
    trace_data.file_type = "d15" => C27_RowsAlignedAcrossChannels

\* The same on the array backend with one amplitude channel.
RowsAlignedOnSingleChannelArrays ==
    (trace_data.file_type = "npy"
     /\ Cardinality(AmpChans \cap DOMAIN trace_data.mm) = 1)
        => C27_RowsAlignedAcrossChannels

\* Positions at or after the offset of the call whose sample is above (rising
\* edge) or below (falling edge) the threshold.
Crossings ==
    {i \in loc.offset..(Len(loc.data) - 1) :
        IF loc.kind = "rising_edge_trigger"
        THEN loc.data[i + 1] > loc.parameter.threshold
        ELSE loc.data[i + 1] < loc.parameter.threshold}

\* C28: the rising-edge trigger returns exactly one mark, the smallest
\* position i >= offset whose sample is above the threshold, whenever there is
\* one (the offset itself and position 0 included), and the empty list
\* otherwise; the falling-edge trigger does the same for samples below it.
C28_EdgeTriggerFindsFirstCrossing ==
    (loc.op = "trigger"
     /\ loc.kind \in {"rising_edge_trigger", "falling_edge_trigger"}) =>
        IF Crossings = {}
        THEN loc.xmarks = <<>>
        ELSE loc.xmarks =
                 <<Some(CHOOSE i \in Crossings : \A j \in Crossings : i <= j)>>

\* C29: every mark a trigger returns for a call with offset o on a buffer of
\* n samples is a position of the whole buffer with o <= mark < n, never a
\* position relative to the searched tail and never one before the offset.
C29_MarksAreAbsoluteAndForward ==
    loc.op = "trigger" =>
        \A i \in 1..Len(loc.xmarks) :
            loc.xmarks[i] # NoMark =>
                /\ loc.offset <= loc.xmarks[i][1]
                /\ loc.xmarks[i][1] < Len(loc.data)

\* The call is one of the threshold trigger in non-inverse mode.
ThresholdCall ==
    loc.op = "trigger" /\ loc.kind = "threshold_trigger"
    /\ ~loc.parameter.inverse

UpperLevel == loc.parameter.threshold + loc.parameter.hysteresis
LowerLevel == loc.parameter.threshold - loc.parameter.hysteresis

\* At position s, at or after the offset, the signal reaches the upper level
\* and then stays above the lower level up to position last.
HoldsFrom(s, last) ==
    /\ loc.offset <= s
    /\ loc.data[s + 1] >= UpperLevel
    /\ \A j \in (s + 1)..last : loc.data[j + 1] > LowerLevel

\* A mark pair was returned.
PairReturned ==
    Len(loc.xmarks) = 2 /\ loc.xmarks[1] # NoMark /\ loc.xmarks[2] # NoMark

\* C30: in non-inverse mode the threshold trigger returns a mark pair whenever
\* at or after the offset the signal reaches threshold + hysteresis and then
\* holds above threshold - hysteresis for min_range samples, also when it
\* holds to the end of the buffer; every pair (s, e) returned has
\* offset <= s < e, e - s >= min_range, sample[s] >= threshold + hysteresis
\* and no sample strictly between s and e at or below threshold - hysteresis.
C30_ThresholdFindsHeldRange ==
    ThresholdCall =>
        /\ (\E s, last \in 0..(Len(loc.data) - 1) :
               HoldsFrom(s, last) /\ last - s >= loc.parameter.min_range)
               => PairReturned
        /\ PairReturned =>
               LET s == loc.xmarks[1][1]
                   e == loc.xmarks[2][1]
               IN  /\ loc.offset <= s /\ s < e
                   /\ e - s >= loc.parameter.min_range
                   /\ loc.data[s + 1] >= UpperLevel
                   /\ \A j \in (s + 1)..(e - 1) : loc.data[j + 1] > LowerLevel

\* A range that is closed by a fall to the lower level is found.
ThresholdFindsClosedRange ==
    ThresholdCall =>
        /\ (\E s, e \in 0..(Len(loc.data) - 1) :
               /\ HoldsFrom(s, e - 1)
               /\ e - s >= loc.parameter.min_range
               /\ loc.data[e + 1] <= LowerLevel)
               => PairReturned
        /\ PairReturned =>
               LET s == loc.xmarks[1][1]
                   e == loc.xmarks[2][1]
               IN  /\ loc.offset <= s /\ s < e
                   /\ e - s >= loc.parameter.min_range
                   /\ loc.data[s + 1] >= UpperLevel
                   /\ loc.data[e + 1] <= LowerLevel
                   /\ \A j \in (s + 1)..(e - 1) : loc.data[j + 1] > LowerLevel

====
